---------------------------- MODULE Spec2Model ----------------------------
(***************************************************************************)
(* Model of the news pipeline of SangwonJi/TEST3:                          *)
(*   scripts/fetch_news.py  cross_validate_news and its title_similarity,  *)
(*                          map_to_group_category, refine_news_with_ai,    *)
(*                          fetch_news_from_rss, remove_duplicates,        *)
(*                          save_to_csv and main                           *)
(*   scripts/clean_news.py  should_exclude, is_valid_*_news, clean_news    *)
(*                                                                         *)
(* Strings are sequences of one-character strings, so that lower(),        *)
(* split(), len() and the substring test are computed, not assumed.        *)
(* A similarity (a Python float) is kept as the exact fraction <<n, d>>.   *)
(***************************************************************************)
EXTENDS Integers, Sequences, FiniteSets, TLC

VARIABLES
    \* ---- title_similarity applied to one pair of titles
    title1, title2, similarity,
    \* ---- one call of cross_validate_news
    openai_news, claude_news, validated_news, seen_titles, origin, pc, i,
    \* ---- clean_news on data/news.csv
    csv_exists, csv, before, df, to_remove, idx, cpc, runs,
    \* ---- one call of map_to_group_category
    detail_category, group_category,
    \* ---- one call of refine_news_with_ai
    news_item, api_type, environ, response, refined,
    \* ---- one call of fetch_news_from_rss
    max_retries, attempt, news_list, attempts, sleeps, rss_pc,
    \* (history) the items the latest attempt of that call appended
    last_collected,
    \* ---- data/news.csv under fetch_news.py main() and clean_news
    news_csv, last_run, exit_code

simVars   == <<title1, title2, similarity>>
cvVars    == <<openai_news, claude_news, validated_news, seen_titles, origin, pc, i>>
cleanVars == <<csv_exists, csv, before, df, to_remove, idx, cpc, runs>>
mapVars   == <<detail_category, group_category>>
refVars   == <<news_item, api_type, environ, response, refined>>
rssVars   == <<max_retries, attempt, news_list, attempts, sleeps, rss_pc, last_collected>>
mainVars  == <<news_csv, last_run, exit_code>>
pipeVars  == <<mapVars, refVars, rssVars, mainVars>>
vars      == <<simVars, cvVars, cleanVars, pipeVars>>

(***************************************************************************)
(* Strings                                                                 *)
(***************************************************************************)

\* str.lower() on one character (the letters the model's inputs use)
LowerChar(c) ==
    CASE c = "A" -> "a"
      [] c = "B" -> "b"
      [] c = "C" -> "c"
      [] c = "D" -> "d"
      [] c = "W" -> "w"
      [] c = "R" -> "r"
      [] c = "S" -> "s"
      [] c = "K" -> "k"
      [] c = "P" -> "p"
      [] c = "U" -> "u"
      [] c = "G" -> "g"
      [] OTHER   -> c

\* str.lower()
RECURSIVE Lower(_)
Lower(s) == IF s = <<>> THEN <<>> ELSE <<LowerChar(Head(s))>> \o Lower(Tail(s))

\* code point of a character, for Python's ordering of strings
Ord(c) ==
    CASE c = " " -> 32
      [] c = "9" -> 57
      [] c = "A" -> 65
      [] c = "B" -> 66
      [] c = "C" -> 67
      [] c = "D" -> 68
      [] c = "G" -> 71
      [] c = "K" -> 75
      [] c = "P" -> 80
      [] c = "R" -> 82
      [] c = "S" -> 83
      [] c = "U" -> 85
      [] c = "W" -> 87
      [] c = "a" -> 97
      [] c = "b" -> 98
      [] c = "c" -> 99
      [] c = "d" -> 100
      [] c = "e" -> 101
      [] c = "g" -> 103
      [] c = "k" -> 107
      [] c = "m" -> 109
      [] c = "n" -> 110
      [] c = "p" -> 112
      [] c = "r" -> 114
      [] c = "s" -> 115
      [] c = "t" -> 116
      [] c = "u" -> 117
      [] c = "w" -> 119
      [] c = "x" -> 120
      [] c = "y" -> 121
      [] OTHER   -> 122

\* s < t for Python strings: lexicographic by code point, a proper prefix first
RECURSIVE StrLess(_, _)
StrLess(s, t) ==
    IF t = <<>> THEN FALSE
    ELSE IF s = <<>> THEN TRUE
    ELSE IF Ord(Head(s)) # Ord(Head(t)) THEN Ord(Head(s)) < Ord(Head(t))
    ELSE StrLess(Tail(s), Tail(t))

IsSpace(c) == c = " "

\* the end of the word of s that starts at position a
WordEnd(s, a) ==
    CHOOSE b \in a..Len(s) :
        /\ \A k \in a..b : ~IsSpace(s[k])
        /\ (b = Len(s) \/ IsSpace(s[b + 1]))

\* set(s.split()): the maximal runs of non-whitespace characters
SplitWords(s) ==
    { SubSeq(s, a, WordEnd(s, a)) :
        a \in { k \in 1..Len(s) : ~IsSpace(s[k]) /\ (k = 1 \/ IsSpace(s[k - 1])) } }

\* all strings over alphabet of length at most n
StringsUpTo(alphabet, n) == UNION { [1..k -> alphabet] : k \in 0..n }

\* " ".join(ws)
RECURSIVE JoinWords(_)
JoinWords(ws) ==
    IF ws = <<>> THEN <<>>
    ELSE IF Len(ws) = 1 THEN ws[1]
    ELSE ws[1] \o <<" ">> \o JoinWords(Tail(ws))

(***************************************************************************)
(* Fractions <<n, d>> with d > 0                                           *)
(***************************************************************************)
FracGt(p, q) == p[1] * q[2] > q[1] * p[2]
FracEq(p, q) == p[1] * q[2] = q[1] * p[2]

(***************************************************************************)
(* title_similarity (fetch_news.py 669-688)                                *)
(***************************************************************************)
One  == <<1, 1>>
Zero == <<0, 1>>

\* a slip that divides by the first title's word count instead of the union
title_similarity_asym(t1, t2) ==
    LET title1_lower == Lower(t1)
        title2_lower == Lower(t2)
        words1 == SplitWords(title1_lower)
        words2 == SplitWords(title2_lower)
    IN  IF title1_lower = title2_lower THEN One
        ELSE IF words1 = {} \/ words2 = {} THEN Zero
        ELSE <<Cardinality(words1 \cap words2), Cardinality(words1)>>

\* a slip that compares the titles as written, without lower()
title_similarity_as_written(t1, t2) ==
    LET words1 == SplitWords(t1)
        words2 == SplitWords(t2)
    IN  IF t1 = t2 THEN One
        ELSE IF words1 = {} \/ words2 = {} THEN Zero
        ELSE <<Cardinality(words1 \cap words2), Cardinality(words1 \cup words2)>>

\* a slip that drops the exact-match short cut
title_similarity_noexact(t1, t2) ==
    LET words1 == SplitWords(Lower(t1))
        words2 == SplitWords(Lower(t2))
    IN  IF words1 = {} \/ words2 = {} THEN Zero
        ELSE <<Cardinality(words1 \cap words2), Cardinality(words1 \cup words2)>>

title_similarity(t1, t2) ==
    LET title1_lower == Lower(t1)
        title2_lower == Lower(t2)
        words1 == SplitWords(title1_lower)
        words2 == SplitWords(title2_lower)
        intersection == words1 \cap words2
        union == words1 \cup words2
    IN  IF title1_lower = title2_lower THEN One
        ELSE IF words1 = {} \/ words2 = {} THEN Zero
        ELSE IF union # {} THEN <<Cardinality(intersection), Cardinality(union)>>
        ELSE Zero

(***************************************************************************)
(* Inputs of the similarity specification                                  *)
(***************************************************************************)
MaxTitleLen   == 3
MaxTitleWords == 3

TitleChars == {"a", "A", " "}
TitleWords == {<<"a">>, <<"b">>, <<"c">>}

\* every string of at most MaxTitleLen characters: case and whitespace cases
CharTitles == StringsUpTo(TitleChars, MaxTitleLen)
\* at most MaxTitleWords words joined by single blanks: the ratio cases
WordTitles == { JoinWords(ws) : ws \in StringsUpTo(TitleWords, MaxTitleWords) }
SimTitles  == CharTitles \cup WordTitles

\* the variables of the parts that a specification leaves idle
CvIdle ==
    /\ openai_news = <<>> /\ claude_news = <<>> /\ validated_news = <<>>
    /\ seen_titles = {} /\ origin = <<>> /\ pc = "idle" /\ i = 0
CleanIdle ==
    /\ csv_exists = FALSE /\ csv = <<>> /\ before = <<>> /\ df = <<>>
    /\ to_remove = {} /\ idx = 0
    /\ cpc = "idle" /\ runs = 0
SimIdle ==
    /\ title1 = <<>> /\ title2 = <<>> /\ similarity = <<>>
MapIdle ==
    /\ detail_category = <<>> /\ group_category = ""
RefIdle ==
    /\ news_item = <<>> /\ api_type = "" /\ environ = {} /\ response = <<>>
    /\ refined = <<>>
RssIdle ==
    /\ max_retries = 0 /\ attempt = 0 /\ news_list = <<>> /\ attempts = <<>>
    /\ sleeps = <<>> /\ rss_pc = "idle" /\ last_collected = <<>>
MainIdle ==
    /\ news_csv = <<>> /\ last_run = "" /\ exit_code = 0
PipeIdle == MapIdle /\ RefIdle /\ RssIdle /\ MainIdle

InitSim ==
    /\ title1 \in SimTitles
    /\ title2 \in SimTitles
    /\ similarity = <<>>
    /\ CvIdle /\ CleanIdle /\ PipeIdle

\* one call title_similarity(title1, title2)
CallSimilarity ==
    /\ similarity = <<>>
    /\ similarity' = title_similarity(title1, title2)
    /\ UNCHANGED <<title1, title2, cvVars, cleanVars, pipeVars>>

NextSim == CallSimilarity
SpecSim == InitSim /\ [][NextSim]_vars

(***************************************************************************)
(* Python dict and list helpers                                            *)
(***************************************************************************)
\* d.get(k, default)
Get(d, k, default) == IF k \in DOMAIN d THEN d[k] ELSE default

\* d[k] = v on a copy of d
SetKey(d, k, v) == [x \in DOMAIN d \cup {k} |-> IF x = k THEN v ELSE d[x]]

\* truth value of a dict: an empty dict is false
Truthy(d) == DOMAIN d # {}

(***************************************************************************)
(* cross_validate_news (fetch_news.py 654-747)                             *)
(***************************************************************************)
\* a slip in the literal: 0.75 for 0.7
ThresholdTypo == <<3, 4>>

\* the 0.7 of  similarity > 0.7  (705)
Threshold == <<7, 10>>

\* a slip that keys on the title as written
TitleKeyRaw(news) == Get(news, "title", <<>>)

\* news.get('title', '').lower() (692, 702, 723, 734)
TitleKey(news) == Lower(Get(news, "title", <<>>))

\* '{:.0%}'.format(score): the score in percent, rounded half to even
Percent(score) ==
    LET q == (100 * score[1]) \div score[2]
        r == (100 * score[1]) % score[2]
    IN  IF 2 * r > score[2] \/ (2 * r = score[2] /\ q % 2 = 1) THEN q + 1 ELSE q

\* the inner loop (701-709) from item j on; best_match is an index of news,
\* 0 for None
RECURSIVE ScanClaude(_, _, _, _)
ScanClaude(title, news, j, st) ==
    IF j > Len(news) THEN st
    ELSE LET claude_title == TitleKey(news[j])
             sim == title_similarity(title, claude_title)
         IN  IF FracGt(sim, Threshold)
             THEN ScanClaude(title, news, j + 1,
                      IF FracGt(sim, st.best_match_score)
                      THEN [matched |-> TRUE, best_match_score |-> sim, best_match |-> j]
                      ELSE [st EXCEPT !.matched = TRUE])
             ELSE ScanClaude(title, news, j + 1, st)

NoMatch == [matched |-> FALSE, best_match_score |-> Zero, best_match |-> 0]

\* a slip that prefers the listB summary also when the two are equally long
PreferLongerTie(item, news, best) ==
    IF Len(Get(best, "summary", <<>>)) >= Len(Get(news, "summary", <<>>))
    THEN SetKey(item, "summary", Get(best, "summary", <<>>))
    ELSE item

\* "use the longer summary" (718-720)
PreferLonger(item, news, best) ==
    IF Len(Get(best, "summary", <<>>)) > Len(Get(news, "summary", <<>>))
    THEN SetKey(item, "summary", Get(best, "summary", <<>>))
    ELSE item

\* the item appended for a match (713-720)
HighItem(news, best, score) ==
    LET c1 == SetKey(news, "confidence", "high")
        c2 == SetKey(c1, "validation", <<"OpenAI + Claude", Percent(score)>>)
        c3 == SetKey(c2, "openai_summary", Get(news, "summary", <<>>))
        c4 == SetKey(c3, "claude_summary", Get(best, "summary", <<>>))
    IN  PreferLonger(c4, news, best)

\* a slip that writes the tag over the item's 'source'
MediumItemSourceTag(news, tag) ==
    SetKey(SetKey(news, "confidence", "medium"), "source", tag)

\* the item appended for a one-source item (726-728, 736-738)
MediumItem(news, tag) ==
    SetKey(SetKey(news, "confidence", "medium"), "validation", <<tag>>)

\* the sort key of 743 compared: (confidence == 'high', title), False < True
KeyLess(x, y) ==
    LET hx == Get(x, "confidence", "") = "high"
        hy == Get(y, "confidence", "") = "high"
    IN  IF hx # hy THEN hy
        ELSE StrLess(Get(x, "title", <<>>), Get(y, "title", <<>>))

\* list.sort is stable: index k goes before the first index whose key is greater
RECURSIVE InsertSorted(_, _, _)
InsertSorted(items, perm, k) ==
    IF perm = <<>> THEN <<k>>
    ELSE IF KeyLess(items[k], items[Head(perm)]) THEN <<k>> \o perm
    ELSE <<Head(perm)>> \o InsertSorted(items, Tail(perm), k)

RECURSIVE SortedPermFrom(_, _, _)
SortedPermFrom(items, perm, k) ==
    IF k > Len(items) THEN perm
    ELSE SortedPermFrom(items, InsertSorted(items, perm, k), k + 1)

\* the order validated_news.sort(key=...) leaves, as indices of the old list
SortedPerm(items) == SortedPermFrom(items, <<>>, 1)

Permuted(seq, perm) == [k \in 1..Len(perm) |-> seq[perm[k]]]

(***************************************************************************)
(* Inputs of the cross-validation specification                            *)
(***************************************************************************)
MaxOpenAI == 2
MaxClaude == 2

\* titles covering: equal but for case, same words in another order (1.0),
\* 3 of 4 words (0.75), 2 of 3 and 2 of 4 words (below 0.7), no word at all
NewsTitles ==
    { <<"a", " ", "b", " ", "c", " ", "d">>,
      <<"A", " ", "b", " ", "c", " ", "d">>,
      <<"d", " ", "c", " ", "b", " ", "a">>,
      <<"a", " ", "b", " ", "c">>,
      <<"a", " ", "b">>,
      <<>> }

\* titles of the merge specification: 1.0 and 0.75 against one another
MergeTitles ==
    { <<"a", " ", "b", " ", "c", " ", "d">>,
      <<"a", " ", "b", " ", "c">> }

\* summaries: empty, two of equal length
NewsSummaries == { <<>>, <<"s">>, <<"t">> }

ItemsOf(src, titles, summaries) ==
    { [title |-> t, summary |-> s, source |-> src] : t \in titles, s \in summaries }

ListsUpTo(items, n) == UNION { [1..k -> items] : k \in 0..n }

CvStart ==
    /\ validated_news = <<>>
    /\ seen_titles = {}
    /\ origin = <<>>
    /\ pc = "openai"
    /\ i = 1
    /\ SimIdle /\ CleanIdle /\ PipeIdle

\* every pair of lists over NewsTitles, all summaries alike
Init ==
    /\ openai_news \in ListsUpTo(ItemsOf("OpenAI", NewsTitles, {<<"s">>}), MaxOpenAI)
    /\ claude_news \in ListsUpTo(ItemsOf("Claude", NewsTitles, {<<"t">>}), MaxClaude)
    /\ CvStart

\* every pair of lists over MergeTitles and NewsSummaries
InitMerge ==
    /\ openai_news \in ListsUpTo(ItemsOf("OpenAI", MergeTitles, NewsSummaries), MaxOpenAI)
    /\ claude_news \in ListsUpTo(ItemsOf("Claude", MergeTitles, NewsSummaries), MaxClaude)
    /\ CvStart

\* Python's None where a text is expected
NoneText == <<"None">>

\* news.get('title', '').lower() raises: the key is there and holds None
TitleRaises(news) == "title" \in DOMAIN news /\ news["title"] = NoneText

\* len(news.get('summary', '')) raises: the key is there and holds None
SummaryRaises(news) == "summary" \in DOMAIN news /\ news["summary"] = NoneText

\* the pass of the first loop for openai_news[i] raises: at 692, at 702 for any
\* item of claude_news, or at 719 when there is a match
OpenAIStepRaises ==
    LET news == openai_news[i]
    IN  \/ TitleRaises(news)
        \/ /\ TitleKey(news) \notin seen_titles
           /\ \/ \E j \in 1..Len(claude_news) : TitleRaises(claude_news[j])
              \/ /\ \/ SummaryRaises(news)
                    \/ \E j \in 1..Len(claude_news) : SummaryRaises(claude_news[j])
                 /\ LET st == ScanClaude(TitleKey(news), claude_news, 1, NoMatch)
                    IN  /\ st.matched /\ st.best_match # 0
                        /\ Truthy(claude_news[st.best_match])
                        /\ \/ SummaryRaises(claude_news[st.best_match])
                           \/ SummaryRaises(news)

\* the pass of the second loop for claude_news[i] raises at 734
ClaudeStepRaises == TitleRaises(claude_news[i])

\* one pass of the loop over openai_news (691-730)
OpenAIStep ==
    /\ pc = "openai"
    /\ i <= Len(openai_news)
    /\ ~OpenAIStepRaises
    /\ LET news  == openai_news[i]
           title == TitleKey(news)
           st    == ScanClaude(title, claude_news, 1, NoMatch)
       IN  IF title \in seen_titles
           THEN UNCHANGED <<validated_news, seen_titles, origin>>
           ELSE IF st.matched /\ st.best_match # 0 /\ Truthy(claude_news[st.best_match])
           THEN LET best_match == claude_news[st.best_match]
                IN  /\ validated_news' = Append(validated_news,
                            HighItem(news, best_match, st.best_match_score))
                    /\ seen_titles' = seen_titles \cup
                            {title, TitleKey(best_match)}
                    /\ origin' = Append(origin,
                            [list |-> "openai", at |-> i, best |-> st.best_match])
           ELSE /\ validated_news' = Append(validated_news,
                            MediumItem(news, "OpenAI only"))
                /\ seen_titles' = seen_titles \cup {title}
                /\ origin' = Append(origin, [list |-> "openai", at |-> i, best |-> 0])
    /\ i' = i + 1
    /\ UNCHANGED <<openai_news, claude_news, pc, simVars, cleanVars, pipeVars>>

\* the first loop is exhausted: on to the loop over claude_news (733)
StartClaudeLoop ==
    /\ pc = "openai"
    /\ i > Len(openai_news)
    /\ pc' = "claude"
    /\ i' = 1
    /\ UNCHANGED <<openai_news, claude_news, validated_news, seen_titles, origin,
                   simVars, cleanVars, pipeVars>>

\* one pass of the loop over claude_news (733-740)
ClaudeStep ==
    /\ pc = "claude"
    /\ i <= Len(claude_news)
    /\ ~ClaudeStepRaises
    /\ LET news  == claude_news[i]
           title == TitleKey(news)
       IN  IF title \notin seen_titles
           THEN /\ validated_news' = Append(validated_news,
                            MediumItem(news, "Claude only"))
                /\ seen_titles' = seen_titles \cup {title}
                /\ origin' = Append(origin, [list |-> "claude", at |-> i, best |-> 0])
           ELSE UNCHANGED <<validated_news, seen_titles, origin>>
    /\ i' = i + 1
    /\ UNCHANGED <<openai_news, claude_news, pc, simVars, cleanVars, pipeVars>>

\* validated_news.sort(...) and return (743-747)
SortAndReturn ==
    /\ pc = "claude"
    /\ i > Len(claude_news)
    /\ LET perm == SortedPerm(validated_news)
       IN  /\ validated_news' = Permuted(validated_news, perm)
           /\ origin' = Permuted(origin, perm)
    /\ pc' = "done"
    /\ UNCHANGED <<openai_news, claude_news, seen_titles, i, simVars, cleanVars, pipeVars>>

Next == OpenAIStep \/ StartClaudeLoop \/ ClaudeStep \/ SortAndReturn

\* a pass of either loop raises and the call ends with the exception
CvRaise ==
    /\ \/ pc = "openai" /\ i <= Len(openai_news) /\ OpenAIStepRaises
       \/ pc = "claude" /\ i <= Len(claude_news) /\ ClaudeStepRaises
    /\ pc' = "raised"
    /\ UNCHANGED <<openai_news, claude_news, validated_news, seen_titles, origin, i,
                   simVars, cleanVars, pipeVars>>

\* items whose title or summary may be missing or None
MalformedItems(src) ==
    { [key \in present |-> CASE key = "title" -> title
                              [] key = "summary" -> summary
                              [] key = "source" -> src] :
        present \in { {"source"}, {"source", "title"}, {"source", "summary"},
                      {"source", "title", "summary"} },
        title \in { NoneText, <<"a", " ", "b">> },
        summary \in { NoneText, <<"s">> } }

InitMalformed ==
    /\ openai_news \in ListsUpTo(MalformedItems("OpenAI"), MaxOpenAI)
    /\ claude_news \in ListsUpTo(MalformedItems("Claude"), MaxClaude)
    /\ CvStart

NextMalformed == OpenAIStep \/ StartClaudeLoop \/ ClaudeStep \/ SortAndReturn \/ CvRaise
SpecMalformed == InitMalformed /\ [][NextMalformed]_vars
Spec == Init /\ [][Next]_vars
SpecMerge == InitMerge /\ [][Next]_vars

(***************************************************************************)
(* clean_news.py                                                           *)
(***************************************************************************)
\* text contains kw as a substring (Python's  kw in text)
Contains(text, kw) ==
    \E k \in 0..(Len(text) - Len(kw)) : SubSeq(text, k + 1, k + Len(kw)) = kw

\* The keyword tables (12-74, 77-83, 86-92), cut down to the keywords that
\* occur in the texts of CleanTitles and CleanSummaries: of all the keywords
\* of the three tables only these are substrings of any such text.
EXCLUDE_KEYWORDS ==
    { <<"K", "9">>,
      <<"A", "w", "a", "r", "d", "s">>,
      <<"a", "r", "m", "s", " ", "d", "e", "a", "l">> }
GAMING_REQUIRED  == { <<"p", "u", "b", "g">> }
TRAFFIC_REQUIRED == { <<"w", "a", "r">> }

\* f"{title} {summary}".lower()
TextOf(title, summary) == Lower(title \o <<" ">> \o summary)

\* a slip that looks the keyword up as written, not lowercased
should_exclude_as_written(title, summary) ==
    \E keyword \in EXCLUDE_KEYWORDS : Contains(TextOf(title, summary), keyword)

should_exclude(title, summary) ==
    \E keyword \in EXCLUDE_KEYWORDS :
        Contains(TextOf(title, summary), Lower(keyword))

\* a slip that looks the text up in the other table
is_valid_gaming_news_traffic_table(title, summary) ==
    \E keyword \in TRAFFIC_REQUIRED :
        Contains(TextOf(title, summary), Lower(keyword))

is_valid_gaming_news(title, summary) ==
    \E keyword \in GAMING_REQUIRED :
        Contains(TextOf(title, summary), Lower(keyword))

is_valid_traffic_news(title, summary) ==
    \E keyword \in TRAFFIC_REQUIRED :
        Contains(TextOf(title, summary), Lower(keyword))

\* pandas: an empty cell is read as NaN and NaN is written as an empty cell.
\* NaN is <<"NaN">> in a text column and "NaN" in the news_type column.
NaNText == <<"NaN">>
NaNType == "NaN"

\* pd.read_csv: row k of the file gets index label k
ReadCsv(file) ==
    [k \in 1..Len(file) |->
        [index     |-> k,
         title     |-> IF file[k].title = <<>> THEN NaNText ELSE file[k].title,
         summary   |-> IF file[k].summary = <<>> THEN NaNText ELSE file[k].summary,
         news_type |-> IF file[k].news_type \in {"", "nan", "NaN"} THEN NaNType
                       ELSE file[k].news_type]]

\* df.to_csv(index=False)
ToCsv(frame) ==
    [k \in 1..Len(frame) |->
        [title     |-> IF frame[k].title = NaNText THEN <<>> ELSE frame[k].title,
         summary   |-> IF frame[k].summary = NaNText THEN <<>> ELSE frame[k].summary,
         news_type |-> IF frame[k].news_type = NaNType THEN "" ELSE frame[k].news_type]]

\* str(cell) of a text cell and of a news_type cell (138-140)
StrText(cell) == IF cell = NaNText THEN <<"n", "a", "n">> ELSE cell
\* a slip that takes str(NaN) to be 'NaN'
StrTypeRepr(cell) == IF cell = NaNType THEN "NaN" ELSE cell
StrType(cell) == IF cell = NaNType THEN "nan" ELSE cell

\* df.at[idx, 'news_type'] = value
SetNewsType(frame, k, value) == [frame EXCEPT ![k].news_type = value]

\* a slip that drops the first of the marked rows only
DropFirstMarked(frame, labels) ==
    SelectSeq(frame, LAMBDA row :
        ~(row.index \in labels /\ \A label \in labels : row.index <= label))

\* df.drop(to_remove)
Drop(frame, labels) == SelectSeq(frame, LAMBDA row : row.index \notin labels)

MaxRows == 2
MaxRuns == 2

CleanTitles ==
    { <<"k", "9", " ", "p", "u", "b", "g">>,
      <<"A", "w", "a", "r", "d", "s">>,
      <<"P", "U", "B", "G", " ", "w", "a", "r">>,
      <<"w", "a", "r">>,
      <<"a", "r", "m", "s">>,
      <<"P", "U", "B", "G">> }
CleanSummaries == { <<>>, <<"d", "e", "a", "l">> }
NewsTypes == { "gaming", "traffic_impact", "", "other" }

CsvRows ==
    { [title |-> t, summary |-> s, news_type |-> n] :
        t \in CleanTitles, s \in CleanSummaries, n \in NewsTypes }

InitClean ==
    /\ csv_exists \in BOOLEAN
    /\ csv \in (IF csv_exists THEN ListsUpTo(CsvRows, MaxRows) ELSE {<<>>})
    /\ before = csv
    /\ df = <<>>
    /\ to_remove = {}
    /\ idx = 0
    /\ cpc = "idle"
    /\ runs = 0
    /\ SimIdle /\ CvIdle /\ PipeIdle

\* clean_news without data/news.csv: report and return (126-128)
CleanMissing ==
    /\ cpc = "idle"
    /\ runs < MaxRuns
    /\ ~csv_exists
    /\ runs' = runs + 1
    /\ UNCHANGED <<csv_exists, csv, before, df, to_remove, idx, cpc, simVars, cvVars, pipeVars>>

\* clean_news up to the loop: read the file (130-135)
CleanLoad ==
    /\ cpc = "idle"
    /\ runs < MaxRuns
    /\ csv_exists
    /\ before' = csv
    /\ df' = ReadCsv(csv)
    /\ to_remove' = {}
    /\ idx' = 1
    /\ cpc' = "loop"
    /\ UNCHANGED <<csv_exists, csv, runs, simVars, cvVars, pipeVars>>

\* one pass of  for idx, row in df.iterrows()  (137-165)
CleanRow ==
    /\ cpc = "loop"
    /\ idx <= Len(df)
    /\ LET row       == df[idx]
           title     == StrText(row.title)
           summary   == StrText(row.summary)
           news_type == StrType(row.news_type)
       IN  IF should_exclude(title, summary)
           THEN /\ to_remove' = to_remove \cup {row.index}
                /\ UNCHANGED df
           ELSE IF news_type = "gaming" /\ ~is_valid_gaming_news(title, summary)
           THEN IF is_valid_traffic_news(title, summary)
                THEN /\ df' = SetNewsType(df, idx, "traffic_impact")
                     /\ UNCHANGED to_remove
                ELSE /\ to_remove' = to_remove \cup {row.index}
                     /\ UNCHANGED df
           ELSE IF news_type = "" \/ news_type = "nan"
           THEN IF is_valid_gaming_news(title, summary)
                THEN /\ df' = SetNewsType(df, idx, "gaming")
                     /\ UNCHANGED to_remove
                ELSE IF is_valid_traffic_news(title, summary)
                THEN /\ df' = SetNewsType(df, idx, "traffic_impact")
                     /\ UNCHANGED to_remove
                ELSE /\ to_remove' = to_remove \cup {row.index}
                     /\ UNCHANGED df
           ELSE UNCHANGED <<df, to_remove>>
    /\ idx' = idx + 1
    /\ UNCHANGED <<csv_exists, csv, before, cpc, runs, simVars, cvVars, pipeVars>>

\* after the loop: drop the rows and write the file (168-171)
CleanSave ==
    /\ cpc = "loop"
    /\ idx > Len(df)
    /\ df' = Drop(df, to_remove)
    /\ csv' = ToCsv(Drop(df, to_remove))
    /\ cpc' = "idle"
    /\ runs' = runs + 1
    /\ UNCHANGED <<csv_exists, before, to_remove, idx, simVars, cvVars, pipeVars>>

NextClean == CleanMissing \/ CleanLoad \/ CleanRow \/ CleanSave
SpecClean == InitClean /\ [][NextClean]_vars

(***************************************************************************)
(* map_to_group_category and get_continent (fetch_news.py 59-114)          *)
(***************************************************************************)
\* x in a Python list
InList(x, list) == \E k \in 1..Len(list) : list[k] = x

\* the four lists of fine-grained labels (84-103); a label is a sequence of
\* characters, as the titles are
outage_block ==
    << <<"i", "n", "t", "e", "r", "n", "e", "t", "_", "s", "h", "u", "t", "d", "o", "w", "n">>,
      <<"t", "e", "c", "h", "_", "o", "u", "t", "a", "g", "e">>,
      <<"p", "o", "w", "e", "r", "_", "o", "u", "t", "a", "g", "e">>,
      <<"c", "e", "n", "s", "o", "r", "s", "h", "i", "p">>,
      <<"c", "y", "b", "e", "r", "_", "a", "t", "t", "a", "c", "k">>,
      <<"i", "n", "f", "r", "a", "s", "t", "r", "u", "c", "t", "u", "r", "e", "_", "d", "a", "m", "a", "g", "e">> >>
social_crisis ==
    << <<"w", "a", "r", "_", "c", "o", "n", "f", "l", "i", "c", "t">>,
      <<"t", "e", "r", "r", "o", "r", "i", "s", "m", "_", "e", "x", "p", "l", "o", "s", "i", "o", "n">>,
      <<"n", "a", "t", "u", "r", "a", "l", "_", "d", "i", "s", "a", "s", "t", "e", "r">>,
      <<"p", "r", "o", "t", "e", "s", "t", "_", "s", "t", "r", "i", "k", "e">>,
      <<"c", "u", "r", "f", "e", "w">>,
      <<"p", "a", "n", "d", "e", "m", "i", "c">>,
      <<"e", "c", "o", "n", "o", "m", "i", "c">> >>
seasonal_calendar ==
    << <<"h", "o", "l", "i", "d", "a", "y">>,
      <<"s", "c", "h", "o", "o", "l", "_", "c", "a", "l", "e", "n", "d", "a", "r">>,
      <<"e", "l", "e", "c", "t", "i", "o", "n">> >>
gaming_competitor ==
    << <<"g", "a", "m", "i", "n", "g">>,
      <<"c", "o", "m", "p", "e", "t", "i", "t", "o", "r", "_", "g", "a", "m", "e">>,
      <<"s", "o", "c", "i", "a", "l", "_", "t", "r", "e", "n", "d">>,
      <<"s", "p", "o", "r", "t", "s", "_", "e", "v", "e", "n", "t">>,
      <<"m", "a", "j", "o", "r", "_", "e", "v", "e", "n", "t">> >>

\* a slip that matches as the keyword classifier does: a label occurring in the
\* category is enough
map_to_group_category_substring(category) ==
    IF \E k \in 1..Len(outage_block) : Contains(category, outage_block[k])
    THEN "outage_block"
    ELSE IF \E k \in 1..Len(social_crisis) : Contains(category, social_crisis[k])
    THEN "social_crisis"
    ELSE IF \E k \in 1..Len(seasonal_calendar) : Contains(category, seasonal_calendar[k])
    THEN "seasonal_calendar"
    ELSE IF \E k \in 1..Len(gaming_competitor) : Contains(category, gaming_competitor[k])
    THEN "gaming_competitor"
    ELSE "other"

\* the chain of  if detail_category in <list>  (105-114)
map_to_group_category(category) ==
    IF InList(category, outage_block) THEN "outage_block"
    ELSE IF InList(category, social_crisis) THEN "social_crisis"
    ELSE IF InList(category, seasonal_calendar) THEN "seasonal_calendar"
    ELSE IF InList(category, gaming_competitor) THEN "gaming_competitor"
    ELSE "other"

\* continent_map.get(country, 'OTHER') (61-70)
get_continent(country) ==
    CASE country \in {"USA", "Canada", "Mexico"} -> "NORTH AMERICA"
      [] country \in {"Brazil", "Argentina"} -> "SOUTH AMERICA"
      [] country \in {"Germany", "UK", "France", "Italy", "Spain"} -> "EUROPE"
      [] country \in {"China", "India", "Japan", "Korea", "South Korea"} -> "ASIA"
      [] country \in {"South Africa", "Egypt", "Nigeria"} -> "AFRICA"
      [] country \in {"Australia", "New Zealand"} -> "OCEANIA"
      [] country \in {"Russia"} -> "RUSSIA & CIS"
      [] OTHER -> "OTHER"

(***************************************************************************)
(* Inputs of the mapper specification                                      *)
(***************************************************************************)
MaxTrim == 1

Elements(list) == { list[k] : k \in 1..Len(list) }

KnownLabels ==
    Elements(outage_block) \cup Elements(social_crisis)
        \cup Elements(seasonal_calendar) \cup Elements(gaming_competitor)

\* known labels written in another case
CaseVariants ==
    { <<"P", "r", "o", "t", "e", "s", "t", "_", "s", "t", "r", "i", "k", "e">>,
      <<"G", "A", "M", "I", "N", "G">>,
      <<"H", "o", "l", "i", "d", "a", "y">> }

\* the known labels; each with up to MaxTrim characters cut off its end or its
\* start; each with a character put after or before it; the case variants;
\* the empty string, "other" and a string unlike any label
DetailCategories ==
    KnownLabels
      \cup { SubSeq(l, 1, Len(l) - k) : l \in KnownLabels, k \in 1..MaxTrim }
      \cup { SubSeq(l, 1 + k, Len(l)) : l \in KnownLabels, k \in 1..MaxTrim }
      \cup { l \o <<c>> : l \in KnownLabels, c \in {" ", "s"} }
      \cup { <<c>> \o l : l \in KnownLabels, c \in {" ", "e"} }
      \cup CaseVariants
      \cup { <<>>, <<"o", "t", "h", "e", "r">>, <<"s", "p", "o", "r", "t", "s">> }

InitMap ==
    /\ detail_category \in DetailCategories
    /\ group_category = ""
    /\ SimIdle /\ CvIdle /\ CleanIdle /\ RefIdle /\ RssIdle /\ MainIdle

\* one call map_to_group_category(detail_category)
CallMap ==
    /\ group_category = ""
    /\ group_category' = map_to_group_category(detail_category)
    /\ UNCHANGED <<detail_category, simVars, cvVars, cleanVars, refVars, rssVars, mainVars>>

NextMap == CallMap
SpecMap == InitMap /\ [][NextMap]_vars

(***************************************************************************)
(* refine_news_with_ai (fetch_news.py 439-651)                             *)
(*                                                                         *)
(* environ is the set of environment variables with a non-empty value.     *)
(* response is what requests.post and the reading of the answer give:      *)
(*   [kind |-> "raise"]                   the request raises               *)
(*   [kind |-> "http", status_code, body] an answer, whose body is         *)
(*     [form |-> "malformed"]  no JSON document, or not of the API's shape *)
(*     [form |-> "text"]       a content text without  { ... }             *)
(*     [form |-> "braces"]     a content text whose  { ... }  is no JSON   *)
(*     [form |-> "object", ai_result]  a content text with a JSON object   *)
(***************************************************************************)
\* Python's None where a dict is expected
PyNone == [None |-> TRUE]

\* the value of  refined  before the call
NotCalled == [pending |-> TRUE]

\* the try block (601-651)
Classified(item, resp) ==
    IF resp.kind = "raise" THEN item
    ELSE IF resp.status_code # 200 THEN item
    ELSE IF resp.body.form = "malformed" THEN item
    ELSE IF resp.body.form = "text" THEN item
    ELSE IF resp.body.form = "braces" THEN item
    ELSE LET ai_result       == resp.body.ai_result
             category_of_answer == Get(ai_result, "category", <<"o", "t", "h", "e", "r">>)
             refined_item    ==
                 SetKey(SetKey(SetKey(SetKey(item,
                     "category", category_of_answer),
                     "category_group", map_to_group_category(category_of_answer)),
                     "summary", Get(ai_result, "summary_kr", Get(item, "summary", <<>>))),
                     "traffic_impact", Get(ai_result, "traffic_impact", ""))
         IN  IF ~Get(ai_result, "relevant", FALSE) THEN PyNone
             ELSE IF Get(ai_result, "country", "") # ""
             THEN SetKey(SetKey(refined_item,
                      "country", ai_result["country"]),
                      "continent", get_continent(ai_result["country"]))
             ELSE refined_item

\* a variant that gives an item it cannot classify the group "other"
refine_news_with_ai_group_other(item, type, env, resp) ==
    IF type = "openai" /\ "OPENAI_API_KEY" \notin env
    THEN SetKey(item, "category_group", "other")
    ELSE IF type = "claude" /\ env \cap {"CLAUDE_API_KEY", "ANTHROPIC_API_KEY"} = {}
    THEN SetKey(item, "category_group", "other")
    ELSE IF type \notin {"openai", "claude"}
    THEN SetKey(item, "category_group", "other")
    ELSE Classified(item, resp)

refine_news_with_ai(item, type, env, resp) ==
    IF type = "openai" /\ "OPENAI_API_KEY" \notin env THEN item
    ELSE IF type = "claude" /\ env \cap {"CLAUDE_API_KEY", "ANTHROPIC_API_KEY"} = {}
    THEN item
    ELSE IF type \notin {"openai", "claude"} THEN item
    ELSE Classified(item, resp)

(***************************************************************************)
(* Inputs of the refine specification                                      *)
(***************************************************************************)
\* an item as fetch_news_from_rss builds it (406-415)
RssItem(date, title, summary, url) ==
    [date |-> date, country |-> "None", continent |-> "None", title |-> title,
     summary |-> summary, url |-> url, source |-> "Google News",
     category |-> <<"g", "a", "m", "i", "n", "g">>]

RefineItems ==
    { RssItem("2024-01-02", t, s, "u1") :
        t \in { <<"w", "a", "r">>, <<"P", "U", "B", "G">> },
        s \in { <<>>, <<"s">> } }

\* the JSON object of the answer: any of its keys may be missing
AiKeys == { "relevant", "category", "country", "summary_kr", "traffic_impact" }
AiValue(key, relevant, category) ==
    CASE key = "relevant" -> relevant
      [] key = "category" -> category
      [] key = "country" -> "Korea"
      [] key = "summary_kr" -> <<"k">>
      [] key = "traffic_impact" -> "down"
AiResults ==
    { [key \in present |-> AiValue(key, relevant, category)] :
        present \in { keys \in SUBSET AiKeys :
                        ("summary_kr" \in keys) = ("traffic_impact" \in keys) },
        relevant \in BOOLEAN,
        category \in { <<"p", "r", "o", "t", "e", "s", "t", "_", "s", "t", "r", "i", "k", "e">>, <<"h", "o", "l", "i", "d", "a", "y">>, <<"G", "a", "m", "i", "n", "g">> } }

Bodies ==
    { [form |-> "malformed"], [form |-> "text"], [form |-> "braces"] }
        \cup { [form |-> "object", ai_result |-> r] : r \in AiResults }

Responses ==
    { [kind |-> "raise"] }
        \cup { [kind |-> "http", status_code |-> s, body |-> b] :
                 s \in {200, 500}, b \in Bodies }

Environs ==
    { {}, {"OPENAI_API_KEY"}, {"ANTHROPIC_API_KEY"}, {"OPENAI_API_KEY", "CLAUDE_API_KEY"} }

InitRefine ==
    /\ news_item \in RefineItems
    /\ api_type \in { "openai", "claude", "gemini" }
    /\ environ \in Environs
    /\ response \in Responses
    /\ refined = NotCalled
    /\ SimIdle /\ CvIdle /\ CleanIdle /\ MapIdle /\ RssIdle /\ MainIdle

\* one call refine_news_with_ai(news_item, api_type)
CallRefine ==
    /\ refined = NotCalled
    /\ refined' = refine_news_with_ai(news_item, api_type, environ, response)
    /\ UNCHANGED <<news_item, api_type, environ, response,
                   simVars, cvVars, cleanVars, mapVars, rssVars, mainVars>>

NextRefine == CallRefine
SpecRefine == InitRefine /\ [][NextRefine]_vars

(***************************************************************************)
(* fetch_news_from_rss (fetch_news.py 369-436)                             *)
(*                                                                         *)
(* A feed entry is [title, link, age], age in days.  An attempt is given   *)
(* the entries feedparser returns and the place where an exception is      *)
(* raised: 0 for feedparser.parse itself, k for the body of the loop at    *)
(* entry k before it is appended, none for an attempt that completes.      *)
(* The keyword names no country, so country and continent stay None.       *)
(***************************************************************************)
\* range(n)
range_inclusive(n) == 0..n
range(n) == 0..(n - 1)

\* feed.entries[:10] (395)
MaxPerFeed == 10
\* timedelta(days=7) (403)
MaxAgeDays == 7
\* time.sleep(5) (432)
RetrySleep == 5

\* pub_date.strftime('%Y-%m-%d') of an entry that is age days old
DateOfAge(age) == IF age = 0 THEN "2024-01-02" ELSE "2023-12-25"

\* the items the loop 395-424 appends for these entries
RECURSIVE ItemsOfEntries(_)
ItemsOfEntries(entries) ==
    IF entries = <<>> THEN <<>>
    ELSE LET entry == Head(entries)
         IN  IF entry.age > MaxAgeDays
             THEN ItemsOfEntries(Tail(entries))
             ELSE <<RssItem(DateOfAge(entry.age), entry.title, <<>>, entry.link)>>
                      \o ItemsOfEntries(Tail(entries))

FirstEntries(entries) ==
    SubSeq(entries, 1, IF Len(entries) < MaxPerFeed THEN Len(entries) ELSE MaxPerFeed)

MaxRetries == 3
MaxEntries == 2

FeedEntries ==
    { [title |-> <<"w", "a", "r">>, link |-> "u1", age |-> 0],
      [title |-> <<"P", "U", "B", "G">>, link |-> "u2", age |-> 0],
      [title |-> <<"a", "r", "m", "s">>, link |-> "u3", age |-> 8] }

InitRss ==
    /\ max_retries \in 0..MaxRetries
    /\ attempt = 0
    /\ news_list = <<>>
    /\ attempts = <<>>
    /\ sleeps = <<>>
    /\ rss_pc = "loop"
    /\ last_collected = <<>>
    /\ SimIdle /\ CvIdle /\ CleanIdle /\ MapIdle /\ RefIdle /\ MainIdle

\* one attempt that completes: the try body up to break (387-427)
RssAttemptOk ==
    /\ rss_pc = "loop"
    /\ attempt \in range(max_retries)
    /\ \E entries \in ListsUpTo(FeedEntries, MaxEntries) :
           /\ news_list' = news_list \o ItemsOfEntries(FirstEntries(entries))
           /\ last_collected' = ItemsOfEntries(FirstEntries(entries))
    /\ attempts' = Append(attempts, "ok")
    /\ rss_pc' = "return"
    /\ UNCHANGED <<max_retries, attempt, sleeps,
                   simVars, cvVars, cleanVars, mapVars, refVars, mainVars>>

\* one attempt that raises: the try body up to the exception and the except
\* clause up to the sleep (387-431, 433-434)
RssAttemptFail ==
    /\ rss_pc = "loop"
    /\ attempt \in range(max_retries)
    /\ \E entries \in ListsUpTo(FeedEntries, MaxEntries) :
       \E raised_at \in 0..Len(FirstEntries(entries)) :
           /\ news_list' =
                  news_list \o ItemsOfEntries(SubSeq(FirstEntries(entries), 1, raised_at - 1))
           /\ last_collected' =
                  ItemsOfEntries(SubSeq(FirstEntries(entries), 1, raised_at - 1))
    /\ attempts' = Append(attempts, "fail")
    /\ IF attempt < max_retries - 1
       THEN rss_pc' = "sleep" /\ UNCHANGED attempt
       ELSE rss_pc' = "loop" /\ attempt' = attempt + 1
    /\ UNCHANGED <<max_retries, sleeps,
                   simVars, cvVars, cleanVars, mapVars, refVars, mainVars>>

\* time.sleep(5) and on to the next attempt (432)
RssSleep ==
    /\ rss_pc = "sleep"
    /\ sleeps' = Append(sleeps, [after |-> attempt + 1, seconds |-> RetrySleep])
    /\ attempt' = attempt + 1
    /\ rss_pc' = "loop"
    /\ UNCHANGED <<max_retries, news_list, attempts, last_collected,
                   simVars, cvVars, cleanVars, mapVars, refVars, mainVars>>

\* return news_list (436), after break or after the last pass of the loop
RssReturn ==
    /\ \/ rss_pc = "return"
       \/ rss_pc = "loop" /\ attempt \notin range(max_retries)
    /\ rss_pc' = "done"
    /\ UNCHANGED <<max_retries, attempt, news_list, attempts, sleeps, last_collected,
                   simVars, cvVars, cleanVars, mapVars, refVars, mainVars>>

NextRss == RssAttemptOk \/ RssAttemptFail \/ RssSleep \/ RssReturn
SpecRss == InitRss /\ [][NextRss]_vars
\* the calls of the function (parse, sleep) return: the sequential program
\* takes its next step whenever it has one
SpecRssLive == SpecRss /\ WF_vars(NextRss)

(***************************************************************************)
(* fetch_news.py main() and clean_news.py on the same data/news.csv        *)
(* (fetch_news.py 778-958, clean_news.py 125-171)                          *)
(*                                                                         *)
(* The file is NoFile or [columns, rows], a row being a function from the  *)
(* columns to the texts of its cells; an empty cell is <<>> in the columns *)
(* of character sequences and "" in the others.  In a dict "None" stands   *)
(* for Python's None.  No priority country is configured, so main() leaves *)
(* the country of the RSS items alone, and NEWS_API_TYPE is in lower case. *)
(***************************************************************************)
NoFile == [missing |-> TRUE]

\* base_columns and optional_columns (829-830)
base_columns ==
    { "date", "country", "continent", "title", "summary", "url", "source",
      "category", "category_group", "traffic_impact" }
optional_columns == { "confidence", "validation", "openai_summary", "claude_summary" }

\* the columns whose cells the model keeps as character sequences
TextColumns == { "title", "summary", "category" }

NaNOf(column) == IF column \in TextColumns THEN NaNText ELSE NaNType

\* pd.read_csv on one cell: an empty cell, 'nan' and 'NaN' are read as NaN
ReadCell(column, text) ==
    IF column \in TextColumns
    THEN IF text = <<>> THEN NaNText ELSE text
    ELSE IF text \in {"", "nan", "NaN"} THEN NaNType ELSE text

\* to_csv on one cell: NaN and None are written as an empty cell
WriteCell(column, value) ==
    IF column \in TextColumns
    THEN IF value = NaNText THEN <<>> ELSE value
    ELSE IF value \in {NaNType, "None"} THEN "" ELSE value

\* pd.read_csv(NEWS_CSV).to_dict('records') (803-804, clean_news.py 130)
ReadRecords(file) ==
    [k \in 1..Len(file.rows) |->
        [column \in file.columns |-> ReadCell(column, file.rows[k][column])]]

load_existing_news(file) == IF file = NoFile THEN <<>> ELSE ReadRecords(file)

\* remove_duplicates (789-793); NaN is true, '' and None are false
remove_duplicates(existing_news, new_news) ==
    LET existing_urls ==
            { existing_news[k]["url"] :
                k \in { n \in 1..Len(existing_news) :
                          existing_news[n]["url"] \notin {"", "None"} } }
    IN  SelectSeq(new_news, LAMBDA news : Get(news, "url", "None") \notin existing_urls)

\* pd.to_datetime and strftime('%Y-%m-%d') on the dates of the model
to_datetime(date) ==
    CASE date = "2024-01-02" -> 20240102
      [] date = "2024-01-01" -> 20240101
      [] date = "2023-12-25" -> 20231225
strftime(day) ==
    CASE day = 20240102 -> "2024-01-02"
      [] day = 20240101 -> "2024-01-01"
      [] day = 20231225 -> "2023-12-25"

\* df.reindex(columns=all_columns) (826-834)
Reindex(all_news) ==
    LET df_columns  == UNION { DOMAIN all_news[k] : k \in 1..Len(all_news) }
        all_columns == base_columns \cup (optional_columns \cap df_columns)
    IN  [k \in 1..Len(all_news) |->
            [column \in all_columns |->
                IF column \in DOMAIN all_news[k] THEN all_news[k][column]
                ELSE NaNOf(column)]]

\* df.sort_values('date', ascending=False) (837-838): the orders of the rows
\* with the later dates first; the sort is not a stable one, so rows of the
\* same date may come in any order
DateSortedOrders(frame) ==
    { order \in [1..Len(frame) -> 1..Len(frame)] :
        /\ \A a, b \in 1..Len(frame) : a # b => order[a] # order[b]
        /\ \A a, b \in 1..Len(frame) :
               a < b => to_datetime(frame[order[a]]["date"])
                            >= to_datetime(frame[order[b]]["date"]) }

\* the files save_to_csv may write for a non-empty all_news (826-842)
save_to_csv(all_news) ==
    LET frame == Reindex(all_news)
    IN  { [columns |-> DOMAIN frame[1],
           rows |-> [k \in 1..Len(frame) |->
                       [column \in DOMAIN frame[1] |->
                           WriteCell(column,
                               IF column = "date"
                               THEN strftime(to_datetime(frame[order[k]]["date"]))
                               ELSE frame[order[k]][column])]]] :
          order \in DateSortedOrders(frame) }

\* what the loop of clean_news does with a row (137-165):
\* "remove", a news_type to write, or "keep"
RowVerdict(row) ==
    LET title     == StrText(Get(row, "title", <<>>))
        summary   == StrText(Get(row, "summary", <<>>))
        news_type == StrType(Get(row, "news_type", ""))
    IN  IF should_exclude(title, summary) THEN "remove"
        ELSE IF news_type = "gaming" /\ ~is_valid_gaming_news(title, summary)
        THEN IF is_valid_traffic_news(title, summary) THEN "traffic_impact"
             ELSE "remove"
        ELSE IF news_type = "" \/ news_type = "nan"
        THEN IF is_valid_gaming_news(title, summary) THEN "gaming"
             ELSE IF is_valid_traffic_news(title, summary) THEN "traffic_impact"
             ELSE "remove"
        ELSE "keep"

\* the file clean_news writes for the file it read (130-171); df.at[idx,
\* 'news_type'] = ... adds the column news_type to a frame that lacks it
clean_news(file) ==
    LET frame   == ReadRecords(file)
        kept    == SelectSeq(frame, LAMBDA row : RowVerdict(row) # "remove")
        written == { k \in 1..Len(frame) :
                       RowVerdict(frame[k]) \in {"gaming", "traffic_impact"} }
        columns == file.columns \cup (IF written = {} THEN {} ELSE {"news_type"})
    IN  [columns |-> columns,
         rows |-> [k \in 1..Len(kept) |->
                     [column \in columns |->
                         WriteCell(column,
                             IF column = "news_type" /\ RowVerdict(kept[k]) # "keep"
                             THEN RowVerdict(kept[k])
                             ELSE Get(kept[k], column, NaNOf(column)))]]]

(***************************************************************************)
(* Inputs of the pipeline specification                                    *)
(***************************************************************************)
MaxRaw == 2
\* the runs that would make the file longer than this are left out
MaxFileRows == 3

\* what the RSS fetches of one run return: an item with a url and a
\* TrafficRequired keyword, an older item without url and without keyword,
\* an older item with another url and a GamingRequired keyword
RawItems ==
    { RssItem("2024-01-02", <<"w", "a", "r">>, <<>>, "u1"),
      RssItem("2024-01-01", <<"a", "r", "m", "s">>, <<>>, ""),
      RssItem("2024-01-01", <<"P", "U", "B", "G">>, <<>>, "u2") }

\* the answers of the API of one run: none, not relevant, relevant
MainResponses ==
    { [kind |-> "raise"],
      [kind |-> "http", status_code |-> 200,
       body |-> [form |-> "object", ai_result |-> [relevant |-> FALSE]]],
      [kind |-> "http", status_code |-> 200,
       body |-> [form |-> "object",
                 ai_result |-> [relevant |-> TRUE, category |-> <<"p", "r", "o", "t", "e", "s", "t", "_", "s", "t", "r", "i", "k", "e">>]]] }

InitMain ==
    /\ news_csv = NoFile
    /\ last_run = "none"
    /\ exit_code = 0
    /\ SimIdle /\ CvIdle /\ CleanIdle /\ MapIdle /\ RefIdle /\ RssIdle

\* the refined items of one run, the None results left out (923-937)
RefinedNews(all_raw_news, type, env, responses) ==
    LET refined_of(k) == refine_news_with_ai(all_raw_news[k], type, env, responses[k])
        kept == { k \in 1..Len(all_raw_news) : refined_of(k) # PyNone }
        place(k) == Cardinality({ n \in kept : n <= k })
    IN  [n \in 1..Cardinality(kept) |->
            refined_of(CHOOSE k \in kept : place(k) = n)]

\* one run of fetch_news.py main() (851-958)
RunFetchNews ==
    /\ \E all_raw_news \in ListsUpTo(RawItems, MaxRaw) :
       \E NEWS_API_TYPE \in {"openai", "gemini"} :
       \E env \in {{}, {"OPENAI_API_KEY"}} :
       \E responses \in [1..Len(all_raw_news) -> MainResponses] :
           LET existing_news    == load_existing_news(news_csv)
               type             == IF NEWS_API_TYPE \in {"openai", "claude"}
                                   THEN NEWS_API_TYPE ELSE "openai"
               all_refined_news == RefinedNews(all_raw_news, type, env, responses)
               unique_new_news  == remove_duplicates(existing_news, all_refined_news)
               all_news         == existing_news \o unique_new_news
           IN  /\ Len(all_news) <= MaxFileRows
               /\ IF unique_new_news # <<>>
                  THEN /\ news_csv' \in save_to_csv(all_news)
                       /\ exit_code' = 0
                  ELSE /\ UNCHANGED news_csv
                       /\ exit_code' = 1
    /\ last_run' = "fetch"
    /\ UNCHANGED <<simVars, cvVars, cleanVars, mapVars, refVars, rssVars>>

\* one run of clean_news.py (125-171)
RunCleanNews ==
    /\ news_csv' = IF news_csv = NoFile THEN NoFile ELSE clean_news(news_csv)
    /\ last_run' = "clean"
    /\ UNCHANGED <<exit_code, simVars, cvVars, cleanVars, mapVars, refVars, rssVars>>

NextMain == RunFetchNews \/ RunCleanNews
SpecMain == InitMain /\ [][NextMain]_vars

(***************************************************************************)
(* Properties of title_similarity                                          *)
(***************************************************************************)
\* the lowercased whitespace-separated words of a title, stated without split():
\* the non-empty blank-free pieces that stand between blanks or the title's ends
WordSet(t) ==
    LET padded == <<" ">> \o Lower(t) \o <<" ">>
    IN  { w \in { SubSeq(Lower(t), a, b) : a, b \in 1..Len(t) } :
            /\ w # <<>>
            /\ \A k \in 1..Len(w) : w[k] # " "
            /\ Contains(padded, <<" ">> \o w \o <<" ">>) }

Computed == similarity # <<>>

\* C6: title_similarity(t1, t2) is 1.0 when the lowercased titles are equal;
\* otherwise 0.0 when either title has no word; otherwise |W1 \cap W2| over
\* |W1 \cup W2| for the sets of lowercased words; and it lies in [0, 1].
C6_SimilarityIsJaccard ==
    Computed =>
        LET W1 == WordSet(title1)
            W2 == WordSet(title2)
        IN  /\ similarity[2] > 0
            /\ 0 <= similarity[1] /\ similarity[1] <= similarity[2]
            /\ IF Lower(title1) = Lower(title2)
               THEN FracEq(similarity, <<1, 1>>)
               ELSE IF W1 = {} \/ W2 = {}
               THEN FracEq(similarity, <<0, 1>>)
               ELSE FracEq(similarity, <<Cardinality(W1 \cap W2), Cardinality(W1 \cup W2)>>)

\* a proper ratio has been computed for two titles that share some words only
C6_Witness ==
    /\ Computed
    /\ similarity[1] > 0
    /\ similarity[1] < similarity[2]

\* C7: title_similarity(a, b) = title_similarity(b, a) for all titles, equal,
\* empty and whitespace-only ones included.
C7_SimilaritySymmetric ==
    Computed => FracEq(similarity, title_similarity(title2, title1))

\* computed for two different titles with unequal numbers of words, and for a
\* whitespace-only title against a title with a word
C7_Witness ==
    /\ Computed
    /\ Lower(title1) # Lower(title2)
    /\ \/ Cardinality(WordSet(title1)) < Cardinality(WordSet(title2))
          /\ similarity[1] > 0
       \/ title1 # <<>> /\ WordSet(title1) = {} /\ WordSet(title2) # {}

(***************************************************************************)
(* Properties of cross_validate_news                                       *)
(***************************************************************************)
Returned == pc = "done"

Out == 1..Len(validated_news)

Confidence(k) == Get(validated_news[k], "confidence", "")

LowerTitle(item) == Lower(Get(item, "title", <<>>))

\* the input item that output item k is a copy of (from the history variable)
SourceItem(k) ==
    IF origin[k].list = "openai" THEN openai_news[origin[k].at]
    ELSE claude_news[origin[k].at]

\* item is news with exactly the keys extra added and every key of news kept,
\* but for the keys in changed
CopyPlus(item, news, extra, changed) ==
    /\ DOMAIN item = DOMAIN news \cup extra
    /\ \A f \in DOMAIN news \ changed : item[f] = news[f]

\* similarity strictly above 0.7
Similar(t, u) == FracGt(title_similarity(t, u), <<7, 10>>)

\* C1: no two items of the returned list have titles that are equal after
\* lowercasing, whatever the inputs (repeated titles, titles that differ by
\* case only).
C1_NoDuplicateTitles ==
    Returned =>
        \A k, l \in Out :
            k # l => LowerTitle(validated_news[k]) # LowerTitle(validated_news[l])

\* returned with two items or more, from inputs where one title occurs in both
\* lists and a title of listA differs from another of listA by case only
C1_Witness ==
    /\ Returned
    /\ Len(validated_news) >= 2
    /\ \E a \in 1..Len(openai_news), b \in 1..Len(claude_news) :
           openai_news[a].title = claude_news[b].title
    /\ \E a, b \in 1..Len(openai_news) :
           /\ a # b
           /\ openai_news[a].title # openai_news[b].title
           /\ LowerTitle(openai_news[a]) = LowerTitle(openai_news[b])

\* C2: in the returned list every "high" item comes before every "medium" item,
\* and within each confidence group the titles ascend.
C2_HighFirstThenByTitle ==
    Returned =>
        \A k, l \in Out :
            k < l =>
                /\ ~(Confidence(k) = "medium" /\ Confidence(l) = "high")
                /\ Confidence(k) = Confidence(l) =>
                       ~StrLess(validated_news[l].title, validated_news[k].title)

\* C3: during one call a listB item is the best_match of at most one listA
\* item.
C3_ClaudeItemMatchedOnce ==
    \A k, l \in 1..Len(origin) :
        (k # l /\ origin[k].best # 0) => origin[k].best # origin[l].best

\* C4 as stated: a title present in both lists (after lowercasing) scores 1.0
\* and the returned list holds a "high" item with that title; two one-item
\* lists with such titles give exactly one item, "high".
C4_EqualTitlesGiveHighItemOfThatTitle ==
    Returned =>
        \A a \in 1..Len(openai_news), b \in 1..Len(claude_news) :
            LowerTitle(openai_news[a]) = LowerTitle(claude_news[b]) =>
                /\ title_similarity(openai_news[a].title, claude_news[b].title) = One
                /\ \E k \in Out :
                       /\ Confidence(k) = "high"
                       /\ LowerTitle(validated_news[k]) = LowerTitle(openai_news[a])
                /\ (Len(openai_news) = 1 /\ Len(claude_news) = 1) =>
                       (Len(validated_news) = 1 /\ Confidence(1) = "high")

\* C4 amended: a title present in both lists (after lowercasing) scores 1.0 and
\* the returned list holds a "high" item whose title is that title or one with
\* similarity above 0.7 to it (an earlier listA item that consumed the title);
\* two one-item lists with such titles give exactly one item, "high".
C4_EqualTitlesGiveHighItem ==
    Returned =>
        \A a \in 1..Len(openai_news), b \in 1..Len(claude_news) :
            LowerTitle(openai_news[a]) = LowerTitle(claude_news[b]) =>
                /\ title_similarity(openai_news[a].title, claude_news[b].title) = One
                /\ \E k \in Out :
                       /\ Confidence(k) = "high"
                       /\ Similar(validated_news[k].title, openai_news[a].title)
                /\ (Len(openai_news) = 1 /\ Len(claude_news) = 1) =>
                       (Len(validated_news) = 1 /\ Confidence(1) = "high")

\* returned, a listA title equal to a listB title up to case, and no returned
\* item bears it: an earlier listA item took the listB item
C4_Witness ==
    /\ Returned
    /\ \E a \in 1..Len(openai_news), b \in 1..Len(claude_news) :
           /\ LowerTitle(openai_news[a]) = LowerTitle(claude_news[b])
           /\ openai_news[a].title # claude_news[b].title
           /\ \A k \in Out :
                  LowerTitle(validated_news[k]) # LowerTitle(openai_news[a])

\* the confidence and tag rule of C5 for every returned item
ConfidenceRule ==
    \A k \in Out :
        LET item == validated_news[k]
            news == SourceItem(k)
            corroborated ==
                /\ origin[k].list = "openai"
                /\ \E j \in 1..Len(claude_news) :
                       Similar(news.title, claude_news[j].title)
        IN  /\ Confidence(k) \in {"high", "medium"}
            /\ Confidence(k) = "high" <=> corroborated
            /\ item.title = news.title /\ item.source = news.source
            /\ Confidence(k) = "medium" =>
                   item.validation =
                       IF origin[k].list = "openai" THEN <<"OpenAI only">>
                       ELSE <<"Claude only">>

NoPairSimilar ==
    \A a \in 1..Len(openai_news), b \in 1..Len(claude_news) :
        ~Similar(openai_news[a].title, claude_news[b].title)

AllMedium ==
    /\ Len(validated_news) = Len(openai_news) + Len(claude_news)
    /\ \A k \in Out : Confidence(k) = "medium"

\* no two items of the list have the same key
DistinctBy(list, Key(_)) ==
    \A a, b \in 1..Len(list) : a # b => Key(list[a]) # Key(list[b])

RawTitle(item) == item.title

C5_WitnessAllMedium ==
    /\ Returned
    /\ Len(openai_news) = MaxOpenAI /\ Len(claude_news) >= 1
    /\ DistinctBy(openai_news \o claude_news, LowerTitle)
    /\ NoPairSimilar

\* the indices of the first occurrences of the lowercased titles of a list
FirstOccurrences(list) ==
    { k \in 1..Len(list) :
        \A l \in 1..(k - 1) : LowerTitle(list[l]) # LowerTitle(list[k]) }

\* every returned item is exactly its input item plus confidence "medium" and
\* the tag
Relabelled(tag) ==
    \A k \in Out :
        /\ CopyPlus(validated_news[k], SourceItem(k), {"confidence", "validation"}, {})
        /\ validated_news[k].confidence = "medium"
        /\ validated_news[k].validation = <<tag>>

OnlyClaude == openai_news = <<>> /\ claude_news # <<>>
OnlyOpenAI == claude_news = <<>> /\ openai_news # <<>>

\* C8 as stated: with exactly one list empty, the items of the other list come
\* back, each "medium" with nothing changed but the tag, as many as that list
\* has; with both empty, the empty list comes back.
C8_OneEmptyList_SameCount ==
    Returned =>
        /\ OnlyClaude => (Relabelled("Claude only")
                          /\ Len(validated_news) = Len(claude_news))
        /\ OnlyOpenAI => (Relabelled("OpenAI only")
                          /\ Len(validated_news) = Len(openai_news))
        /\ (openai_news = <<>> /\ claude_news = <<>>) => validated_news = <<>>

\* C8 amended: with exactly one list empty, the items of the other list come
\* back without those whose lowercased title occurred earlier in the list, each
\* "medium" with nothing changed but the tag (as many items as the list has
\* titles that differ after lowercasing); with both empty, the empty list.
C8_OneEmptyList ==
    Returned =>
        /\ OnlyClaude =>
               /\ Relabelled("Claude only")
               /\ {origin[k].at : k \in Out} = FirstOccurrences(claude_news)
               /\ Len(validated_news) = Cardinality(FirstOccurrences(claude_news))
        /\ OnlyOpenAI =>
               /\ Relabelled("OpenAI only")
               /\ {origin[k].at : k \in Out} = FirstOccurrences(openai_news)
               /\ Len(validated_news) = Cardinality(FirstOccurrences(openai_news))
        /\ (openai_news = <<>> /\ claude_news = <<>>) => validated_news = <<>>

\* returned from an empty listA and a listB that repeats a title up to case
C8_Witness ==
    /\ Returned
    /\ OnlyClaude
    /\ Len(claude_news) = MaxClaude
    /\ Len(validated_news) < Len(claude_news)

\* C9: the summary of a "high" item is the longer of the listA summary and the
\* summary of the listB item it was matched to, the listA summary when they
\* are equally long; every other original field of the listA item is kept.
C9_LongerSummaryKept ==
    Returned =>
        \A k \in Out :
            origin[k].best # 0 =>
                LET item == validated_news[k]
                    news == openai_news[origin[k].at]
                    best == claude_news[origin[k].best]
                IN  /\ item.confidence = "high"
                    /\ item.summary =
                           IF Len(best.summary) > Len(news.summary)
                           THEN best.summary ELSE news.summary
                    /\ CopyPlus(item, news,
                           {"confidence", "validation", "openai_summary",
                            "claude_summary"}, {"summary"})

\* returned with one item merged from a longer listB summary and one merged
\* from summaries of equal length that differ
C9_Witness ==
    /\ Returned
    /\ \E k \in Out :
           /\ origin[k].best # 0
           /\ Len(claude_news[origin[k].best].summary)
                  > Len(openai_news[origin[k].at].summary)
    /\ \E k \in Out :
           /\ origin[k].best # 0
           /\ Len(claude_news[origin[k].best].summary)
                  = Len(openai_news[origin[k].at].summary)
           /\ claude_news[origin[k].best].summary # openai_news[origin[k].at].summary

(***************************************************************************)
(* Properties of clean_news                                                *)
(***************************************************************************)
\* kw occurs in text when letter case is ignored, compared character by
\* character
OccursIgnoringCase(text, kw) ==
    \E k \in 0..(Len(text) - Len(kw)) :
        \A j \in 1..Len(kw) : LowerChar(text[k + j]) = LowerChar(kw[j])

\* the rows of the file as the last run read them
Loaded == ReadCsv(before)

\* title + " " + summary of a row as the loop sees them
RowText(row) == StrText(row.title) \o <<" ">> \o StrText(row.summary)

HasExcludeKeyword(row) ==
    \E kw \in EXCLUDE_KEYWORDS : OccursIgnoringCase(RowText(row), kw)

\* a run of clean_news has written the file
Cleaned == cpc = "idle" /\ runs > 0 /\ csv_exists

\* the index labels of the rows the last run kept
KeptLabels == { df[j].index : j \in 1..Len(df) }

\* C10: exclusion wins.  For every row whose title + " " + summary holds an
\* Exclude keyword (case ignored) should_exclude is true, the loop marks the row
\* for removal without rewriting its news_type, and the run removes it from the
\* file, whatever its news_type and its other keywords.
C10_ExclusionWins ==
    \A k \in 1..Len(before) :
        HasExcludeKeyword(Loaded[k]) =>
            /\ should_exclude(StrText(Loaded[k].title), StrText(Loaded[k].summary))
            /\ (cpc = "loop" /\ idx > k) =>
                   /\ k \in to_remove
                   /\ df[k].news_type = Loaded[k].news_type
            /\ Cleaned =>
                   /\ k \notin KeptLabels
                   /\ Len(csv) = Cardinality(KeptLabels)
                   /\ \A j \in 1..Len(csv) :
                          /\ csv[j].title = before[df[j].index].title
                          /\ csv[j].summary = before[df[j].index].summary

\* a run has removed a "gaming" row that holds an Exclude keyword written in
\* another case and a GamingRequired keyword, and has kept another row
C10_Witness ==
    /\ Cleaned
    /\ Len(csv) >= 1
    /\ \E k \in 1..Len(before) :
           /\ before[k].news_type = "gaming"
           /\ HasExcludeKeyword(Loaded[k])
           /\ \A kw \in EXCLUDE_KEYWORDS : ~Contains(RowText(Loaded[k]), kw)
           /\ is_valid_gaming_news(before[k].title, before[k].summary)
           /\ k \notin KeptLabels


(***************************************************************************)
(* Properties of clean_news: the policy of the loop                        *)
(***************************************************************************)
HasGamingKeyword(row) ==
    \E kw \in GAMING_REQUIRED : OccursIgnoringCase(RowText(row), kw)

HasTrafficKeyword(row) ==
    \E kw \in TRAFFIC_REQUIRED : OccursIgnoringCase(RowText(row), kw)

\* the last run kept row k of the file it read and wrote it with this news_type
KeptAs(k, news_type) ==
    \E j \in 1..Len(df) : df[j].index = k /\ csv[j].news_type = news_type

\* C11: a row whose title + " " + summary holds no keyword of Exclude,
\* GamingRequired or TrafficRequired is removed by the run, whatever its
\* news_type is ("gaming", "traffic_impact", empty or any other string).
C11_NoKeywordRowRemoved ==
    Cleaned =>
        \A k \in 1..Len(before) :
            ( /\ ~HasExcludeKeyword(Loaded[k])
              /\ ~HasGamingKeyword(Loaded[k])
              /\ ~HasTrafficKeyword(Loaded[k]) ) => k \notin KeptLabels

\* C12: a row without Exclude keyword whose news_type is "gaming": with a
\* GamingRequired keyword it is kept and stays "gaming"; without one it is
\* kept as "traffic_impact" if it holds a TrafficRequired keyword and is
\* removed if it holds none.
C12_GamingRowPolicy ==
    Cleaned =>
        \A k \in 1..Len(before) :
            (~HasExcludeKeyword(Loaded[k]) /\ before[k].news_type = "gaming") =>
                IF HasGamingKeyword(Loaded[k]) THEN KeptAs(k, "gaming")
                ELSE IF HasTrafficKeyword(Loaded[k]) THEN KeptAs(k, "traffic_impact")
                ELSE k \notin KeptLabels

\* a run has turned a "gaming" row with only a TrafficRequired keyword into
\* "traffic_impact" and has removed a "gaming" row with no keyword at all
C12_Witness ==
    /\ Cleaned
    /\ \E k, n \in 1..Len(before) :
           /\ before[k].news_type = "gaming" /\ before[n].news_type = "gaming"
           /\ ~HasExcludeKeyword(Loaded[k]) /\ ~HasExcludeKeyword(Loaded[n])
           /\ ~HasGamingKeyword(Loaded[k]) /\ HasTrafficKeyword(Loaded[k])
           /\ KeptAs(k, "traffic_impact")
           /\ ~HasGamingKeyword(Loaded[n]) /\ ~HasTrafficKeyword(Loaded[n])
           /\ n \notin KeptLabels

\* C13: a row without Exclude keyword whose news_type cell is empty: it gets
\* "gaming" if it holds a GamingRequired keyword (with or without a
\* TrafficRequired keyword), else "traffic_impact" if it holds a
\* TrafficRequired keyword, else it is removed.
C13_UntypedRowPolicy ==
    Cleaned =>
        \A k \in 1..Len(before) :
            (~HasExcludeKeyword(Loaded[k]) /\ before[k].news_type = "") =>
                IF HasGamingKeyword(Loaded[k]) THEN KeptAs(k, "gaming")
                ELSE IF HasTrafficKeyword(Loaded[k]) THEN KeptAs(k, "traffic_impact")
                ELSE k \notin KeptLabels

\* a run has typed an empty-typed row with both keywords "gaming" and an
\* empty-typed row with only a TrafficRequired keyword "traffic_impact"
C13_Witness ==
    /\ Cleaned
    /\ \E k, n \in 1..Len(before) :
           /\ before[k].news_type = "" /\ before[n].news_type = ""
           /\ ~HasExcludeKeyword(Loaded[k]) /\ ~HasExcludeKeyword(Loaded[n])
           /\ HasGamingKeyword(Loaded[k]) /\ HasTrafficKeyword(Loaded[k])
           /\ KeptAs(k, "gaming")
           /\ ~HasGamingKeyword(Loaded[n]) /\ HasTrafficKeyword(Loaded[n])
           /\ KeptAs(n, "traffic_impact")


(***************************************************************************)
(* Properties of map_to_group_category                                     *)
(***************************************************************************)
GroupNames == { "outage_block", "social_crisis", "seasonal_calendar", "gaming_competitor" }

ListOf(group) ==
    CASE group = "outage_block" -> outage_block
      [] group = "social_crisis" -> social_crisis
      [] group = "seasonal_calendar" -> seasonal_calendar
      [] group = "gaming_competitor" -> gaming_competitor

\* C14: the mapper is total with exact-string matching.  Every known label
\* stands in exactly one of the four lists and a call with it returns that
\* list's group ("protest_strike" gives "social_crisis"); a call with any other
\* string (a case variant, a substring or a superstring of a label among them)
\* returns "other"; the result is always one of the five group names.
C14_MapperExact ==
    /\ \A l \in KnownLabels :
           Cardinality({ g \in GroupNames : l \in Elements(ListOf(g)) }) = 1
    /\ group_category # "" =>
           /\ group_category \in GroupNames \cup {"other"}
           /\ \A g \in GroupNames :
                  detail_category \in Elements(ListOf(g)) => group_category = g
           /\ detail_category \notin KnownLabels => group_category = "other"
           /\ detail_category = <<"p", "r", "o", "t", "e", "s", "t", "_", "s", "t", "r", "i", "k", "e">> => group_category = "social_crisis"

\* a call with a string that is no label but holds one has returned "other"
C14_Witness ==
    /\ group_category = "other"
    /\ detail_category \notin KnownLabels
    /\ \E l \in KnownLabels : Contains(detail_category, l)


(***************************************************************************)
(* Properties of refine_news_with_ai                                       *)
(***************************************************************************)
\* no classification can be made: no usable api_type, no key, no answer, an
\* answer other than 200, or an answer without a readable JSON object
CannotClassify ==
    \/ api_type \notin {"openai", "claude"}
    \/ api_type = "openai" /\ "OPENAI_API_KEY" \notin environ
    \/ api_type = "claude" /\ "CLAUDE_API_KEY" \notin environ
                           /\ "ANTHROPIC_API_KEY" \notin environ
    \/ response.kind = "raise"
    \/ response.kind = "http" /\ response.status_code # 200
    \/ response.kind = "http" /\ response.body.form # "object"

\* the answer's JSON object says "relevant": false or does not say
NotRelevant ==
    LET ai_result == response.body.ai_result
    IN  "relevant" \notin DOMAIN ai_result \/ ai_result["relevant"] = FALSE

\* C19: when no classification can be made the call returns its input item as
\* it is, without category_group; it returns None only for a parsed JSON
\* object whose "relevant" is false or missing; in every other case it returns
\* an item whose category_group is map_to_group_category of its category.
C19_RefineFallback ==
    refined # NotCalled =>
        /\ CannotClassify =>
               /\ refined = news_item
               /\ "category_group" \notin DOMAIN refined
        /\ refined = PyNone => ~CannotClassify /\ NotRelevant
        /\ (~CannotClassify /\ ~NotRelevant) =>
               /\ refined # PyNone
               /\ refined["category_group"] =
                      map_to_group_category(refined["category"])
               /\ refined["category"] =
                      (IF "category" \in DOMAIN response.body.ai_result
                       THEN response.body.ai_result["category"] ELSE <<"o", "t", "h", "e", "r">>)

\* the key is there and the answer is 500: the call has returned its input
C19_Witness ==
    /\ refined = news_item
    /\ api_type = "claude" /\ "ANTHROPIC_API_KEY" \in environ
    /\ response.kind = "http" /\ response.status_code = 500
    /\ response.body.form = "object" /\ ~NotRelevant


(***************************************************************************)
(* Properties of fetch_news_from_rss                                       *)
(***************************************************************************)
\* the numbers of the failed attempts that are not attempt number max_retries
FailedNotLast ==
    { k \in 1..Len(attempts) : attempts[k] = "fail" /\ k < max_retries }

RssRetrySafety ==
    /\ Len(attempts) <= max_retries
    /\ \A k \in 1..Len(attempts) : attempts[k] = "ok" => k = Len(attempts)
    /\ \A k \in 1..Len(sleeps) : sleeps[k].seconds = 5
    /\ rss_pc \in {"loop", "sleep", "return", "done"}
    /\ rss_pc = "done" =>
           /\ { sleeps[k].after : k \in 1..Len(sleeps) } = FailedNotLast
           /\ Len(sleeps) = Cardinality(FailedNotLast)
           /\ (\A k \in 1..Len(attempts) : attempts[k] = "fail") =>
                  Len(attempts) = max_retries
           /\ news_list \in Seq({ news_list[k] : k \in 1..Len(news_list) })

\* C20: the call makes at most max_retries attempts, makes none after an attempt
\* that completed, sleeps 5 seconds after every failed attempt but attempt
\* number max_retries, gives up only after max_retries failed attempts, and in
\* the end returns its list.
C20_RssRetriesAndReturns ==
    []RssRetrySafety /\ <>(rss_pc = "done")

\* the call has returned after two failed attempts and a third that completed
C20_Witness ==
    /\ rss_pc = "done"
    /\ attempts = <<"fail", "fail", "ok">>
    /\ Len(sleeps) = 2


(***************************************************************************)
(* Properties of the pipeline on data/news.csv                             *)
(***************************************************************************)
RowsOf(file) == IF file = NoFile THEN <<>> ELSE file.rows

\* two rows have the same identity key: the same url, or, both without url,
\* the same title
SameIdentity(row, other) ==
    IF row["url"] # "" /\ other["url"] # "" THEN row["url"] = other["url"]
    ELSE IF row["url"] = "" /\ other["url"] = ""
    THEN Lower(row["title"]) = Lower(other["title"])
    ELSE FALSE

\* C15: every row of a file that main() has written with save_to_csv has a
\* category_group that is one of the five group names, whatever
\* refine_news_with_ai did for the items of the run.
C15_PersistedGroupIsOneOfFive ==
    (last_run = "fetch" /\ exit_code = 0) =>
        \A k \in 1..Len(RowsOf(news_csv)) :
            RowsOf(news_csv)[k]["category_group"] \in GroupNames \cup {"other"}

\* C16: at no time does the file hold two rows of the same identity key.
C16_NoTwoRowsOfOneIdentity ==
    \A j, k \in 1..Len(RowsOf(news_csv)) :
        j < k => ~SameIdentity(RowsOf(news_csv)[j], RowsOf(news_csv)[k])

\* C17: a run of main() leaves every row of the file it found in the file,
\* with every cell of every column the row had, news_type among them.
C17_FetchKeepsPersistedRows ==
    [][ last_run' = "fetch" =>
            \A k \in 1..Len(RowsOf(news_csv)) :
                \E j \in 1..Len(RowsOf(news_csv')) :
                    \A column \in news_csv.columns :
                        /\ column \in news_csv'.columns
                        /\ RowsOf(news_csv')[j][column] = RowsOf(news_csv)[k][column]
      ]_vars


(***************************************************************************)
(* Properties of cross_validate_news on malformed items                    *)
(***************************************************************************)
\* the item has no title or no summary: the key is missing or holds None
Malformed(news) ==
    \/ "title" \notin DOMAIN news \/ news["title"] = NoneText
    \/ "summary" \notin DOMAIN news \/ news["summary"] = NoneText

\* C18: a call of cross_validate_news on lists with items whose title or
\* summary is missing (the key absent or None) does not raise: whenever the
\* call has ended, it has returned its list.
C18_MalformedItemsNeverRaise ==
    (\E k \in 1..Len(openai_news) : Malformed(openai_news[k])) \/
    (\E k \in 1..Len(claude_news) : Malformed(claude_news[k]))
        => pc # "raised"


\* C21: the list the call returns holds the items its last attempt collected,
\* each once, and nothing else: what an attempt appended before it raised is
\* neither left in the list nor appended a second time by the retry.
C21_ResultIsLastAttemptOnly ==
    rss_pc = "done" => news_list = last_collected


\* C22: clean_news is idempotent on the row set.  A run that reads the file an
\* earlier run wrote marks no row for removal, writes as many rows as it read
\* and leaves the news_type of each of them as it was, whatever table the
\* first run started from.
C22_SecondRunChangesNothing ==
    (Cleaned /\ runs >= 2) =>
        /\ to_remove = {}
        /\ Len(csv) = Len(before)
        /\ \A j \in 1..Len(before) : csv[j].news_type = before[j].news_type

\* a second run over a file in which the first run left a gaming row and a
\* traffic_impact row
C22_Witness ==
    /\ Cleaned /\ runs >= 2
    /\ Len(before) = 2
    /\ before[1].news_type = "gaming"
    /\ before[2].news_type = "traffic_impact"
    /\ csv = before

====
